---- MODULE Spec2Model ----
(***************************************************************************)
(* Model of radarly/api.py: the RadarlyApi client (authenticate, refresh,  *)
(* request), the error-response parser _parse_error_response, the rate     *)
(* tracker and bearer credentials the client uses, and the default api of  *)
(* the class; and of CallableDict of radarly/utils/_internal.py.           *)
(*                                                                         *)
(* Python values that the code compares across types (a str with a list)   *)
(* are carried as tagged records of one shape, so that 'a' == ['a'] is     *)
(* FALSE here as it is in Python.  Strings the code cuts and joins (URLs)  *)
(* are sequences of tokens.  Network responses are the inputs of the       *)
(* operations.                                                             *)
(***************************************************************************)
EXTENDS Integers, Sequences, FiniteSets, TLC

VARIABLES
    access_token,   \* self.access_token
    refresh_token,  \* self.refresh_token
    _auth,          \* self._auth
    scope,          \* self.scope
    autorefresh,    \* self.autorefresh
    last_refresh,   \* self.last_refresh
    rates,          \* self.rates
    now,            \* the clock read by datetime.now()
    op,             \* the last operation called on the client
    called,         \* the verb and url arguments of that operation
    exc,            \* the exception that operation raised ("None": it returned)
    calls,          \* the network calls that operation made, in order
    checks,         \* the rate checks that operation made, in order
    issued,         \* refresh token returned by the last successful authenticate/refresh
    response,       \* the argument of _parse_error_response
    error_data,     \* the dict _parse_error_response returned
    _default_api,   \* RadarlyApi._default_api
    objects,        \* the objects the caller holds
    history,        \* the calls made on the class: operation, object, exception
    cdict,          \* a CallableDict
    lookup,         \* the last lookup in it: operation, key, value returned
    url_arg,        \* a url argument of request
    sent            \* the URLs sent for it: as given, then passed again

clientVars == <<access_token, refresh_token, _auth, scope, autorefresh, last_refresh,
                rates, now, op, called, exc, calls, checks, issued, response, error_data>>

registryVars == <<_default_api, objects, history>>

dictVars == <<cdict, lookup>>

urlVars == <<url_arg, sent>>

vars == <<clientVars, registryVars, dictVars, urlVars>>

-----------------------------------------------------------------------------
(* Bounds *)

MaxToken == 2     \* token values the token endpoint hands out: 1..MaxToken
MaxQuota == 1     \* largest "maximum calls" a rate header announces
MaxTime  == 1     \* the clock runs from 0 to MaxTime
MaxCalls == 4     \* calls made on the class RadarlyApi
MaxId    == 10    \* integer keys asked of a CallableDict: 0..MaxId
MaxParts == 2     \* parts a string key is made of
MaxEntries == 2   \* entries of a data source of a CallableDict
MaxUrlLen == 3    \* tokens of a url argument

-----------------------------------------------------------------------------
(* Python values *)

None == 0

PyStr(s)  == [t |-> "str",  s |-> s,  n |-> 0, l |-> <<>>]
PyInt(n)  == [t |-> "int",  s |-> "", n |-> n, l |-> <<>>]
PyList(l) == [t |-> "list", s |-> "", n |-> 0, l |-> l]

EmptyDict == [k \in {} |-> PyStr("")]

\* dict.get(key, default)
Get(d, key, default) == IF key \in DOMAIN d THEN d[key] ELSE default

\* d.update(other): the entries of other win
Update(d, other) ==
    [k \in DOMAIN d \cup DOMAIN other |-> IF k \in DOMAIN other THEN other[k] ELSE d[k]]

-----------------------------------------------------------------------------
(* Responses of the requests module *)

\* A response: its status code, its Content-Type header, its body and its
\* rate headers.  The body is what the Content-Type announces: a JSON
\* object (json), an HTML document (the text nodes of its <title> elements
\* and of its <p id="detail"> elements), or something else.
Resp(code, ctype, json, title, detail, used, max, reset) ==
    [status_code |-> code, content_type |-> ctype, json |-> json,
     title |-> title, detail |-> detail,
     used |-> used, max |-> max, reset |-> reset]

NoResponse == Resp(0, "", EmptyDict, <<>>, <<>>, 0, 0, 0)

\* response.raise_for_status() raises HTTPError
IsHTTPError(r) == r.status_code >= 400

\* response.json() returns (it raises ValueError on a body that is not JSON)
HasJson(r) == r.content_type = "application/json"

-----------------------------------------------------------------------------
(* _parse_error_response *)

\* document.xpath('//title/text()'): the list of the text nodes
XPathTitle(r) == PyList(r.title)

\* element[0], '' on IndexError
DetailText(r) == IF Len(r.detail) > 0 THEN PyStr(r.detail[1]) ELSE PyStr("")

\* the JSON branch files the message of the body under 'error_message',
\* the key of the HTML branch
parse_json_as_html(r) ==
    LET base == [k \in {"error_code"} |-> PyInt(r.status_code)] IN
    IF r.content_type = "text/html"
    THEN Update(base, [k \in {"error_type", "error_message"} |->
                          IF k = "error_type" THEN XPathTitle(r) ELSE DetailText(r)])
    ELSE IF r.content_type = "application/json"
    THEN Update(base, [k \in {"error_type", "error_message"} |->
                          IF k = "error_type" THEN Get(r.json, "error_type", PyStr(""))
                          ELSE Get(r.json, "message", PyStr(""))])
    ELSE base

_parse_error_response(r) ==
    LET base == [k \in {"error_code"} |-> PyInt(r.status_code)] IN
    IF r.content_type = "text/html"
    THEN Update(base, [k \in {"error_type", "error_message"} |->
                          IF k = "error_type" THEN XPathTitle(r) ELSE DetailText(r)])
    ELSE IF r.content_type = "application/json"
    THEN Update(base, r.json)
    ELSE base

-----------------------------------------------------------------------------
(* URLs: sequences of tokens; "/" is the separator *)

root_url == <<"https://radarly.linkfluence.com">>
login_url == <<"https://oauth.linkfluence.com/oauth2/token">>
version == <<"1.0">>

RECURSIVE LStrip(_)
LStrip(s) == IF s # <<>> /\ Head(s) = "/" THEN LStrip(Tail(s)) ELSE s

RECURSIVE RStrip(_)
RStrip(s) == IF s # <<>> /\ s[Len(s)] = "/" THEN RStrip(SubSeq(s, 1, Len(s) - 1)) ELSE s

\* url.strip('/')
Strip(s) == RStrip(LStrip(s))

\* s.startswith(p)
StartsWith(s, p) == Len(s) >= Len(p) /\ SubSeq(s, 1, Len(p)) = p

\* p in s
Contains(s, p) == \E i \in 0..(Len(s) - Len(p)) : SubSeq(s, i + 1, i + Len(p)) = p

\* '{}/{}'.format(a, b)
Join(a, b) == a \o <<"/">> \o b

\* lines 207, 210-214 of request: the URL the call is sent to
normalize(url) ==
    LET u1 == Strip(url)
        u2 == IF version # <<>> /\ ~StartsWith(u1, version) /\ ~StartsWith(u1, root_url)
              THEN Join(version, u1) ELSE u1
    IN  IF Contains(u2, root_url) THEN u2 ELSE Join(root_url, u2)

-----------------------------------------------------------------------------
(* CallableDict.  Its keys are strings that are searched and cut: sequences *)
(* of characters.  A key given by a caller is an int or a str.             *)

KeyInt(n) == [int |-> TRUE, n |-> n, chars |-> <<>>]
KeyStr(cs) == [int |-> FALSE, n |-> 0, chars |-> cs]

Digit(n) == <<"0", "1", "2", "3", "4", "5", "6", "7", "8", "9">>[n + 1]

\* str(n) of an int n >= 0
RECURSIVE Decimal(_)
Decimal(n) == IF n < 10 THEN <<Digit(n)>> ELSE Decimal(n \div 10) \o <<Digit(n % 10)>>

\* str(key)
str(k) == IF k.int THEN Decimal(k.n) ELSE k.chars

focus_ == <<"f", "o", "c", "u", "s", "_">>

\* s.replace(old, ''): the occurrences of old, found from the left and not
\* overlapping, are cut out
RECURSIVE Replace(_, _)
Replace(s, old) ==
    IF Len(s) < Len(old) THEN s
    ELSE IF SubSeq(s, 1, Len(old)) = old THEN Replace(SubSeq(s, Len(old) + 1, Len(s)), old)
    ELSE <<Head(s)>> \o Replace(Tail(s), old)

NoEntries == [k \in {} |-> <<>>]

\* dict([(str(key), data[key]) for key in data]): data is the list of the
\* (key, value) pairs of a source, a later pair replaces an earlier one
RECURSIVE StrKeys(_)
StrKeys(data) ==
    IF data = <<>> THEN NoEntries
    ELSE LET e == data[Len(data)] IN
         Update(StrKeys(SubSeq(data, 1, Len(data) - 1)), [k \in {str(e.key)} |-> e.value])

\* CallableDict(*datas), lines 28-32
RECURSIVE CallableDict(_)
CallableDict(datas) ==
    IF datas = <<>> THEN NoEntries
    ELSE Update(CallableDict(SubSeq(datas, 1, Len(datas) - 1)), StrKeys(datas[Len(datas)]))

\* what a lookup gives: the value returned and the dict afterwards
Found(value, self) == [value |-> value, self |-> self]

\* lines 34-35
__missing__(self, k) == Found(str(k), self)

\* the key is searched as str(key), with nothing cut out
getitem_uncut(self, k) ==
    LET ks == str(k) IN
    IF ks \in DOMAIN self THEN Found(self[ks], self) ELSE __missing__(self, KeyStr(ks))

\* lines 37-39; dict.__getitem__ of a subclass calls __missing__ with the
\* key it searched
__getitem__(self, k) ==
    LET ks == Replace(str(k), focus_) IN
    IF ks \in DOMAIN self THEN Found(self[ks], self) ELSE __missing__(self, KeyStr(ks))

\* lines 41-42
__call__(self, k) == __getitem__(self, k)

-----------------------------------------------------------------------------
(* RadarlyAuth and RateLimit *)

NoAuth == [set |-> FALSE, token |-> None]

\* RadarlyAuth(token): the bearer credentials built from token
RadarlyAuth(token) == [set |-> TRUE, token |-> token]

NoRate == [tracked |-> FALSE, remaining |-> 0, reset |-> 0]

\* RateLimit.is_reached(url): the tracked remaining count of url is zero
is_reached(rt, url) == rt[url].tracked /\ rt[url].remaining = 0

\* RateLimit.update(url, headers): the entry of url is overwritten from the
\* current/maximum usage and the reset time of the headers
rates_update(rt, url, r) ==
    [rt EXCEPT ![url] = [tracked |-> TRUE, remaining |-> r.max - r.used, reset |-> r.reset]]

-----------------------------------------------------------------------------
(* The client: authenticate, refresh, request as functions of the object,  *)
(* the responses the network gives and the clock.  Each returns the object *)
(* afterwards, the exception raised and the network calls made.            *)

Self == [access_token |-> access_token, refresh_token |-> refresh_token,
         _auth |-> _auth, scope |-> scope, last_refresh |-> last_refresh,
         rates |-> rates]

NoExc == [type |-> "None", response |-> NoResponse]
Raise(type, r) == [type |-> type, response |-> r]

Outcome(self, e, cs) == [self |-> self, exc |-> e, calls |-> cs, checks |-> <<>>]

\* no 'data' keyword
NoData == [given |-> FALSE, dumps |-> 0, value |-> ""]

\* json.dumps(data): the value, serialized once more
Dumps(data) == [data EXCEPT !.dumps = @ + 1]

\* lines 215-219: the Content-Type header defaults to application/json,
\* and the data of a JSON call is serialized
Prepare(kwargs) ==
    LET ctype == IF kwargs.content_type = "" THEN "application/json"
                 ELSE kwargs.content_type
    IN  [data |-> IF kwargs.data.given /\ ctype = "application/json"
                  THEN Dumps(kwargs.data) ELSE kwargs.data,
         content_type |-> ctype]

\* requests.request('POST', self.login_url, data=..., ...)
TokenCall(grant, token, r) ==
    [kind |-> "token", verb |-> "POST", url |-> login_url, data |-> NoData, auth |-> NoAuth,
     grant |-> grant, refresh_token |-> token, response |-> r]

\* requests.request(verb, url, auth=self._auth, **kwargs)
ResourceCall(verb, url, kwargs, auth, r) ==
    [kind |-> "resource", verb |-> verb, url |-> url, data |-> kwargs.data, auth |-> auth,
     grant |-> "", refresh_token |-> None, response |-> r]

\* auth_response.get('scope', '').split(' '): a scope string is the words
\* it joins with ' ', and ''.split(' ') is ['']
SplitScope(body) ==
    LET words == Get(body, "scope", <<>>) IN IF words = <<>> THEN <<"">> ELSE words

\* the tokens are stored, but bearer credentials that exist are kept
StoreTokens_stale(self, body) ==
    LET token == Get(body, "access_token", None) IN
    [self EXCEPT !.access_token = token,
                 !.refresh_token = Get(body, "refresh_token", None),
                 !._auth = IF self._auth.set THEN self._auth ELSE RadarlyAuth(token)]

\* lines 312-316 and 337-340: the tokens of the body are stored and the
\* bearer credentials rebuilt from the access token
StoreTokens(self, body) ==
    LET token == Get(body, "access_token", None) IN
    [self EXCEPT !.access_token = token,
                 !.refresh_token = Get(body, "refresh_token", None),
                 !._auth = RadarlyAuth(token)]

\* a refused authenticate forgets the tokens before it raises
authenticate_clearing(self, r) ==
    LET call == TokenCall("client_credentials", None, r) IN
    IF IsHTTPError(r)
    THEN Outcome([self EXCEPT !.access_token = None, !.refresh_token = None],
                 Raise("BadAuthentication", NoResponse), <<call>>)
    ELSE IF ~HasJson(r) THEN Outcome(self, Raise("ValueError", NoResponse), <<call>>)
    ELSE Outcome([StoreTokens(self, r.json) EXCEPT !.scope = SplitScope(r.json)],
                 NoExc, <<call>>)

\* a refused authenticate drops the bearer credentials and the scope
authenticate_dropping(self, r) ==
    LET call == TokenCall("client_credentials", None, r) IN
    IF IsHTTPError(r)
    THEN Outcome([self EXCEPT !._auth = NoAuth, !.scope = <<"">>],
                 Raise("BadAuthentication", NoResponse), <<call>>)
    ELSE IF ~HasJson(r) THEN Outcome(self, Raise("ValueError", NoResponse), <<call>>)
    ELSE Outcome([StoreTokens(self, r.json) EXCEPT !.scope = SplitScope(r.json)],
                 NoExc, <<call>>)

authenticate(self, r) ==
    LET call == TokenCall("client_credentials", None, r) IN
    IF IsHTTPError(r) THEN Outcome(self, Raise("BadAuthentication", NoResponse), <<call>>)
    ELSE IF ~HasJson(r) THEN Outcome(self, Raise("ValueError", NoResponse), <<call>>)
    ELSE Outcome([StoreTokens(self, r.json) EXCEPT !.scope = SplitScope(r.json)],
                 NoExc, <<call>>)

refresh(self, r, t) ==
    LET call == TokenCall("refresh_token", self.refresh_token, r) IN
    IF ~HasJson(r) THEN Outcome(self, Raise("ValueError", NoResponse), <<call>>)
    ELSE Outcome([StoreTokens(self, r.json) EXCEPT !.last_refresh = t], NoExc, <<call>>)

\* every error is taken for an expired token
ShouldRefresh_any(data, auto) == auto

\* the autorefresh attribute is not consulted
ShouldRefresh_always(data, auto) ==
    Get(data, "error_type", PyStr("")) = PyStr("ExpiredTokenException")

\* line 232: error_type == 'ExpiredTokenException' and self.autorefresh
ShouldRefresh(data, auto) ==
    Get(data, "error_type", PyStr("")) = PyStr("ExpiredTokenException") /\ auto

\* a retry that is refused for an expired token refreshes and retries again
Retry_again(self, verb, url, kwargs, first, env, t) ==
    LET rf == refresh(self, env.refresh, t)
        again == ResourceCall(verb, url, kwargs, rf.self._auth, env.retry)
        rf2 == refresh(rf.self, env.refresh, t)
        third == ResourceCall(verb, url, kwargs, rf2.self._auth, env.retry)
    IN  IF rf.exc.type # "None" THEN Outcome(rf.self, rf.exc, <<first>> \o rf.calls)
        ELSE IF IsHTTPError(env.retry)
        THEN IF ShouldRefresh_always(_parse_error_response(env.retry), TRUE)
             THEN Outcome(rf2.self, Raise("HTTPError", env.retry),
                          <<first>> \o rf.calls \o <<again>> \o rf2.calls \o <<third>>)
             ELSE Outcome(rf.self, Raise("HTTPError", env.retry),
                          <<first>> \o rf.calls \o <<again>>)
        ELSE Outcome([rf.self EXCEPT !.rates = rates_update(@, url, env.retry)],
                     NoExc, <<first>> \o rf.calls \o <<again>>)

\* the rate is checked again before the retry
Retry_rechecking(self, verb, url, kwargs, first, env, t) ==
    LET rf == refresh(self, env.refresh, t)
        again == ResourceCall(verb, url, kwargs, rf.self._auth, env.retry)
        check == [url |-> url, sent |-> 1 + Len(rf.calls)]
    IN  IF rf.exc.type # "None" THEN Outcome(rf.self, rf.exc, <<first>> \o rf.calls)
        ELSE IF is_reached(rf.self.rates, url)
        THEN [Outcome(rf.self, Raise("RateReached", NoResponse), <<first>> \o rf.calls)
                EXCEPT !.checks = <<check>>]
        ELSE IF IsHTTPError(env.retry)
        THEN [Outcome(rf.self, Raise("HTTPError", env.retry), <<first>> \o rf.calls \o <<again>>)
                EXCEPT !.checks = <<check>>]
        ELSE [Outcome([rf.self EXCEPT !.rates = rates_update(@, url, env.retry)],
                      NoExc, <<first>> \o rf.calls \o <<again>>)
                EXCEPT !.checks = <<check>>]

\* the retry is sent with the credentials of the first call and a body
\* serialized a second time
Retry_stale(self, verb, url, kwargs, first, env, t) ==
    LET rf == refresh(self, env.refresh, t)
        again == ResourceCall(verb, url, Prepare(kwargs), self._auth, env.retry)
    IN  IF rf.exc.type # "None" THEN Outcome(rf.self, rf.exc, <<first>> \o rf.calls)
        ELSE IF IsHTTPError(env.retry)
        THEN Outcome(rf.self, Raise("HTTPError", env.retry), <<first>> \o rf.calls \o <<again>>)
        ELSE Outcome([rf.self EXCEPT !.rates = rates_update(@, url, env.retry)],
                     NoExc, <<first>> \o rf.calls \o <<again>>)

\* lines 233-235: refresh, then the call again
Retry(self, verb, url, kwargs, first, env, t) ==
    LET rf == refresh(self, env.refresh, t)
        again == ResourceCall(verb, url, kwargs, rf.self._auth, env.retry)
    IN  IF rf.exc.type # "None" THEN Outcome(rf.self, rf.exc, <<first>> \o rf.calls)
        ELSE IF IsHTTPError(env.retry)
        THEN Outcome(rf.self, Raise("HTTPError", env.retry), <<first>> \o rf.calls \o <<again>>)
        ELSE Outcome([rf.self EXCEPT !.rates = rates_update(@, url, env.retry)],
                     NoExc, <<first>> \o rf.calls \o <<again>>)

\* lines 225-240: the call, its error handling and the update of the rates
Send(self, auto, verb, url, kwargs, env, t) ==
    LET first == ResourceCall(verb, url, kwargs, self._auth, env.first) IN
    IF ~IsHTTPError(env.first)
    THEN Outcome([self EXCEPT !.rates = rates_update(@, url, env.first)], NoExc, <<first>>)
    ELSE IF ShouldRefresh(_parse_error_response(env.first), auto)
    THEN Retry(self, verb, url, kwargs, first, env, t)
    ELSE Outcome(self, Raise("HTTPError", env.first), <<first>>)

\* the rate is checked after the call instead of before it
Checked_late(self, auto, verb, url, kwargs, env, t) ==
    LET res == Send(self, auto, verb, url, kwargs, env, t)
        check == [url |-> url, sent |-> Len(res.calls)]
    IN  IF is_reached(self.rates, url)
        THEN [Outcome(res.self, Raise("RateReached", NoResponse), res.calls)
                EXCEPT !.checks = <<check>>]
        ELSE [res EXCEPT !.checks = @ \o <<check>>]

\* lines 222-223: the rate check, then the call
Checked(self, auto, verb, url, kwargs, env, t) ==
    LET check == [url |-> url, sent |-> 0] IN  \* sent: the calls made before the check
    IF is_reached(self.rates, url)
    THEN [Outcome(self, Raise("RateReached", NoResponse), <<>>) EXCEPT !.checks = <<check>>]
    ELSE [Send(self, auto, verb, url, kwargs, env, t) EXCEPT !.checks = <<check>> \o @]

\* the calls cs of an authenticate came before the checks
After(cs, chks) == [i \in DOMAIN chks |-> [chks[i] EXCEPT !.sent = @ + Len(cs)]]

\* the request goes on after an authenticate that raised
request_unauthenticated(self, auto, verb, url, kwargs, env, t) ==
    LET a == IF ~self._auth.set THEN authenticate(self, env.auth)
             ELSE Outcome(self, NoExc, <<>>)
        res == Checked(a.self, auto, verb, normalize(url), Prepare(kwargs), env, t)
    IN  [res EXCEPT !.calls = a.calls \o @, !.checks = After(a.calls, @)]

\* lines 207-240: strip and normalize the url, authenticate a client that
\* has no bearer credentials, prepare the keywords, check the rate, call
request(self, auto, verb, url, kwargs, env, t) ==
    LET a == IF ~self._auth.set THEN authenticate(self, env.auth)
             ELSE Outcome(self, NoExc, <<>>)
    IN  IF a.exc.type # "None" THEN a
        ELSE LET res == Checked(a.self, auto, verb, normalize(url), Prepare(kwargs), env, t)
             IN  [res EXCEPT !.calls = a.calls \o @, !.checks = After(a.calls, @)]

-----------------------------------------------------------------------------
(* The inputs: what callers pass and what the network answers *)

Tokens == 1..MaxToken

\* the calls a caller makes: a verb, a url relative to the root, and the
\* keywords: no data, or data to send as JSON
Requests ==
    { [verb |-> "GET", url |-> <<"projects">>,
       kwargs |-> [data |-> NoData, content_type |-> ""]],
      [verb |-> "POST", url |-> <<"/", "users", "/">>,
       kwargs |-> [data |-> [given |-> TRUE, dumps |-> 0, value |-> "user"],
                   content_type |-> ""]] }

Urls == { r.url : r \in Requests }

Targets == { normalize(u) : u \in Urls }

default_scope == <<"listening", "historical-data", "social-performance">>

\* the JSON object of a token response
TokenBody(a, r) ==
    [k \in {"access_token", "refresh_token", "scope"} |->
        IF k = "access_token" THEN a
        ELSE IF k = "refresh_token" THEN r
        ELSE <<"listening">>]

TokenOk(body) == Resp(200, "application/json", body, <<>>, <<>>, 0, 0, 0)

\* the token endpoint grants a pair of tokens, refuses with a JSON error,
\* or fails with an HTML page
TokenGranted == { TokenOk(TokenBody(a, a)) : a \in Tokens }

TokenRefused ==
    { Resp(401, "application/json", [k \in {"error"} |-> "invalid_client"],
           <<>>, <<>>, 0, 0, 0),
      Resp(502, "text/html", EmptyDict, <<"Bad Gateway">>, <<>>, 0, 0, 0) }

TokenResponses == TokenGranted \cup TokenRefused

ErrBody(type, message) ==
    [k \in {"error_type", "message"} |->
        IF k = "error_type" THEN PyStr(type) ELSE PyStr(message)]

\* a resource answers with data and any usage up to the maximum, or with
\* an error: an expired token (on a used-up quota) or a missing resource as
\* JSON, an expired token as an HTML page
ResourceOk ==
    { Resp(200, "application/json", EmptyDict, <<>>, <<>>, used, max, 0) :
        used \in 0..MaxQuota, max \in {MaxQuota} }

ResourceErrors ==
    { Resp(401, "application/json", ErrBody("ExpiredTokenException", "token expired"),
           <<>>, <<>>, MaxQuota, MaxQuota, 0),
      Resp(404, "application/json", ErrBody("NotFound", "no such resource"),
           <<>>, <<>>, 0, MaxQuota, 0),
      Resp(401, "text/html", EmptyDict,
           <<"ExpiredTokenException">>, <<"token expired">>, 0, MaxQuota, 0) }

ResourceResponses == ResourceOk \cup ResourceErrors

-----------------------------------------------------------------------------
(* The client as a state machine *)

\* __init__ before its call of authenticate (lines 113-127)
Fresh == [access_token |-> None, refresh_token |-> None, _auth |-> NoAuth,
          scope |-> default_scope, last_refresh |-> 0,
          rates |-> [u \in Targets |-> NoRate]]

\* the refresh token a successful authenticate or refresh returned
Issued(res, old) ==
    LET last == res.calls[Len(res.calls)] IN
    IF res.exc.type = "None" /\ ~IsHTTPError(last.response)
    THEN Get(last.response.json, "refresh_token", None) ELSE old

NoArgs == [verb |-> "", url |-> <<>>, kwargs |-> [data |-> NoData, content_type |-> ""]]

Becomes(o, res) ==
    /\ access_token' = res.self.access_token
    /\ refresh_token' = res.self.refresh_token
    /\ _auth' = res.self._auth
    /\ scope' = res.self.scope
    /\ last_refresh' = res.self.last_refresh
    /\ rates' = res.self.rates
    /\ op' = o
    /\ exc' = res.exc
    /\ calls' = res.calls
    /\ checks' = res.checks
    /\ UNCHANGED <<registryVars, dictVars, urlVars>>

\* an object of the class that is not a RadarlyApi, and None
Object(class) == [class |-> class, id |-> 0, access_token |-> None]

\* line 92, and no call made on the class
NoRegistry ==
    /\ _default_api = Object("NoneType")
    /\ objects = {}
    /\ history = <<>>

\* no CallableDict
NoDict ==
    /\ cdict = NoEntries
    /\ lookup = [op |-> "", key |-> KeyStr(<<>>), value |-> <<>>]

\* no url to send
NoUrl ==
    /\ url_arg = <<>>
    /\ sent = <<>>

\* RadarlyApi(client_id, client_secret, autorefresh=..., _authenticate=...):
\* a constructor whose authenticate raises gives no object
Init ==
    /\ now = 0
    /\ autorefresh \in BOOLEAN
    /\ \E _authenticate \in BOOLEAN :
         \E r \in (IF _authenticate THEN TokenGranted ELSE {NoResponse}) :
           LET res == IF _authenticate THEN authenticate(Fresh, r)
                      ELSE Outcome(Fresh, NoExc, <<>>)
           IN  /\ access_token = res.self.access_token
               /\ refresh_token = res.self.refresh_token
               /\ _auth = res.self._auth
               /\ scope = res.self.scope
               /\ last_refresh = res.self.last_refresh
               /\ rates = res.self.rates
               /\ op = "init"
               /\ called = NoArgs
               /\ exc = res.exc
               /\ calls = res.calls
               /\ checks = res.checks
               /\ issued = IF _authenticate THEN Issued(res, None) ELSE None
    /\ response = NoResponse
    /\ error_data = EmptyDict
    /\ NoRegistry
    /\ NoDict
    /\ NoUrl

Authenticate ==
    \E r \in TokenResponses :
       LET res == authenticate(Self, r) IN
       /\ Becomes("authenticate", res)
       /\ called' = NoArgs
       /\ issued' = Issued(res, issued)
       /\ UNCHANGED <<autorefresh, now, response, error_data>>

Refresh ==
    \E r \in TokenResponses :
       LET res == refresh(Self, r, now) IN
       /\ Becomes("refresh", res)
       /\ called' = NoArgs
       /\ issued' = Issued(res, issued)
       /\ UNCHANGED <<autorefresh, now, response, error_data>>

\* the token calls of a request, for the refresh token last issued
RECURSIVE IssuedBy(_, _)
IssuedBy(cs, old) ==
    IF cs = <<>> THEN old
    ELSE LET c == Head(cs) IN
         IssuedBy(Tail(cs),
                  IF c.kind = "token" /\ HasJson(c.response) /\ ~IsHTTPError(c.response)
                  THEN Get(c.response.json, "refresh_token", None) ELSE old)

Request ==
    \E req \in Requests :
    \E ra \in (IF _auth.set THEN {NoResponse} ELSE TokenResponses) :
    \E r1 \in ResourceResponses :
    \E rf \in (IF ShouldRefresh(_parse_error_response(r1), autorefresh)
               THEN TokenResponses ELSE {NoResponse}) :
    \E r2 \in (IF ShouldRefresh(_parse_error_response(r1), autorefresh)
               THEN ResourceResponses ELSE {NoResponse}) :
       LET env == [auth |-> ra, first |-> r1, refresh |-> rf, retry |-> r2]
           res == request(Self, autorefresh, req.verb, req.url, req.kwargs, env, now)
       IN  /\ Becomes("request", res)
           /\ called' = req
           /\ issued' = IssuedBy(res.calls, issued)
           /\ UNCHANGED <<autorefresh, now, response, error_data>>

\* time passes between two calls
Tick ==
    /\ now < MaxTime
    /\ now' = now + 1
    /\ op' = "tick"
    /\ called' = NoArgs
    /\ exc' = NoExc
    /\ calls' = <<>>
    /\ checks' = <<>>
    /\ UNCHANGED <<access_token, refresh_token, _auth, scope, autorefresh,
                   last_refresh, rates, issued, response, error_data>>
    /\ UNCHANGED <<registryVars, dictVars, urlVars>>

Next == Authenticate \/ Refresh \/ Request \/ Tick

Spec == Init /\ [][Next]_vars

-----------------------------------------------------------------------------
(* _parse_error_response on its own: every error response of ParseInputs   *)
(* is parsed once.                                                         *)

StatusCodes == {400, 401, 404, 500}

Titles == { <<>>, <<"Not Found">>, <<"ExpiredTokenException">>, <<"Not Found", "Error">> }

Details == { <<>>, <<"no such resource">>, <<"no such resource", "try again">> }

ErrorTypes == { PyStr("X"), PyStr("ExpiredTokenException"), PyStr(""), PyInt(7) }

Messages == { PyStr("Y"), PyStr(""), PyList(<<"Y", "Z">>) }

JsonBodies ==
    { [k \in {"error_type", "message"} |-> IF k = "error_type" THEN x ELSE y] :
        x \in ErrorTypes, y \in Messages }
    \cup { EmptyDict, [k \in {"message"} |-> PyStr("Y")] }
    \cup { [k \in {"error_type", "message", "error_code"} |->
              IF k = "error_code" THEN PyInt(1) ELSE PyStr("X")] }

ParseInputs ==
    { Resp(c, "text/html", EmptyDict, t, d, 0, 0, 0) :
        c \in StatusCodes, t \in Titles, d \in Details }
    \cup { Resp(c, "application/json", b, <<>>, <<>>, 0, 0, 0) :
             c \in StatusCodes, b \in JsonBodies }
    \cup { Resp(c, ct, EmptyDict, <<>>, <<>>, 0, 0, 0) :
             c \in StatusCodes, ct \in {"", "text/plain"} }

InitParse ==
    /\ access_token = None
    /\ refresh_token = None
    /\ _auth = NoAuth
    /\ scope = default_scope
    /\ autorefresh = TRUE
    /\ last_refresh = 0
    /\ rates = [u \in Targets |-> NoRate]
    /\ now = 0
    /\ op = "init"
    /\ called = NoArgs
    /\ exc = NoExc
    /\ calls = <<>>
    /\ checks = <<>>
    /\ issued = None
    /\ response \in ParseInputs
    /\ error_data = EmptyDict
    /\ NoRegistry
    /\ NoDict
    /\ NoUrl

Parse ==
    /\ error_data = EmptyDict
    /\ error_data' = _parse_error_response(response)
    /\ UNCHANGED <<response, access_token, refresh_token, _auth, scope, autorefresh,
                   last_refresh, rates, now, op, called, exc, calls, checks, issued>>
    /\ UNCHANGED <<registryVars, dictVars, urlVars>>

NextParse == Parse

SpecParse == InitParse /\ [][NextParse]_vars

Parsed == error_data # EmptyDict

-----------------------------------------------------------------------------
(* The default api of the class: objects are constructed, registered and   *)
(* asked for.  An object is known by the number of the call that made it.  *)

\* no client object is looked at
NoClient ==
    /\ access_token = None
    /\ refresh_token = None
    /\ _auth = NoAuth
    /\ scope = default_scope
    /\ autorefresh = TRUE
    /\ last_refresh = 0
    /\ rates = [u \in Targets |-> NoRate]
    /\ now = 0
    /\ op = "init"
    /\ called = NoArgs
    /\ exc = NoExc
    /\ calls = <<>>
    /\ checks = <<>>
    /\ issued = None
    /\ response = NoResponse
    /\ error_data = EmptyDict

\* a RadarlyApi object
Api(id, self) == [class |-> "RadarlyApi", id |-> id, access_token |-> self.access_token]

\* isinstance(api, cls)
isinstance(api) == api.class = "RadarlyApi"

\* what a call on the class gives: the default api afterwards, the object
\* returned (None: none) and the exception raised
Gives(default, api, e) == [_default_api |-> default, api |-> api, exc |-> e]

\* lines 102-129: the credentials come from the arguments or the
\* environment; the object exists when __init__ returns
__init__(default, args, r, id) ==
    IF ~args.credentials THEN Gives(default, Object("NoneType"), "KeyError")
    ELSE LET res == IF args._authenticate THEN authenticate(Fresh, r)
                    ELSE Outcome(Fresh, NoExc, <<>>)
         IN  IF res.exc.type # "None" THEN Gives(default, Object("NoneType"), res.exc.type)
             ELSE Gives(default, Api(id, res.self), "None")

\* the first object registered stays the default api
set_default_api_once(default, api) ==
    IF ~isinstance(api) THEN Gives(default, Object("NoneType"), "AssertionError")
    ELSE Gives(IF isinstance(default) THEN default ELSE api, Object("NoneType"), "None")

\* lines 169-176
set_default_api(default, api) ==
    IF ~isinstance(api) THEN Gives(default, Object("NoneType"), "AssertionError")
    ELSE Gives(api, Object("NoneType"), "None")

\* the default api is forgotten before the object is constructed
init_forgetting(default, args, r, id) ==
    LET made == __init__(Object("NoneType"), args, r, id) IN
    IF made.exc # "None" THEN made
    ELSE Gives(set_default_api(made._default_api, made.api)._default_api, made.api, "None")

\* lines 150-152
init(default, args, r, id) ==
    LET made == __init__(default, args, r, id) IN
    IF made.exc # "None" THEN made
    ELSE Gives(set_default_api(default, made.api)._default_api, made.api, "None")

\* lines 165-167
get_default_api(default) ==
    IF default = Object("NoneType") THEN Gives(default, Object("NoneType"), "NoInitializedApi")
    ELSE Gives(default, default, "None")

\* the arguments of a constructor with the answer of the token endpoint:
\* no credentials anywhere, no authenticate, a granted or a refused one
ConstructorInputs ==
    { [args |-> [credentials |-> FALSE, _authenticate |-> TRUE], r |-> NoResponse],
      [args |-> [credentials |-> TRUE, _authenticate |-> FALSE], r |-> NoResponse] }
    \cup { [args |-> [credentials |-> TRUE, _authenticate |-> TRUE], r |-> r] :
             r \in { TokenOk(TokenBody(1, 1)),
                     Resp(401, "application/json", [k \in {"error"} |-> "invalid_client"],
                          <<>>, <<>>, 0, 0, 0) } }

InitDefault == NoClient /\ NoRegistry /\ NoDict /\ NoUrl

\* the call is recorded; an object made is one the caller holds
Recorded(o, api, res) ==
    /\ Len(history) < MaxCalls
    /\ _default_api' = res._default_api
    /\ history' = Append(history, [op |-> o, api |-> api, exc |-> res.exc])
    /\ objects' = IF isinstance(res.api) THEN objects \cup {res.api} ELSE objects
    /\ UNCHANGED <<clientVars, dictVars, urlVars>>

Construct ==
    \E i \in ConstructorInputs :
       LET res == __init__(_default_api, i.args, i.r, Len(history) + 1) IN
       Recorded("RadarlyApi", res.api, res)

InitApi ==
    \E i \in ConstructorInputs :
       LET res == init(_default_api, i.args, i.r, Len(history) + 1) IN
       Recorded("init", res.api, res)

SetDefaultApi ==
    \E api \in objects \cup {Object("str")} :
       Recorded("set_default_api", api, set_default_api(_default_api, api))

GetDefaultApi ==
    LET res == get_default_api(_default_api) IN Recorded("get_default_api", res.api, res)

NextDefault == Construct \/ InitApi \/ SetDefaultApi \/ GetDefaultApi

SpecDefault == InitDefault /\ [][NextDefault]_vars

-----------------------------------------------------------------------------
(* Lookups in a CallableDict built from data sources *)

Labels == { <<"A">>, <<"B">> }

StoredKeys == { KeyInt(1), KeyStr(<<"1">>), KeyStr(focus_ \o <<"1">>) }

Entries == { [key |-> k, value |-> v] : k \in StoredKeys, v \in Labels }

\* a data source: a dict, as the list of its entries, no key twice
Sources ==
    { data \in UNION { [1..n -> Entries] : n \in 0..MaxEntries } :
        \A i, j \in DOMAIN data : i # j => data[i].key # data[j].key }

\* the arguments of CallableDict: none, one source, two sources of one entry
Datas ==
    { <<>> } \cup { <<data>> : data \in Sources }
    \cup { <<a, b>> : a, b \in { data \in Sources : Len(data) = 1 } }

Parts == { focus_, <<"1">>, <<"2">>, <<"f", "o", "c">>, <<"u", "s", "_">> }

RECURSIVE Concat(_)
Concat(parts) == IF parts = <<>> THEN <<>> ELSE Head(parts) \o Concat(Tail(parts))

\* the keys asked: ints, and strings of at most MaxParts parts
Keys ==
    { KeyInt(n) : n \in 0..MaxId }
    \cup { KeyStr(Concat(parts)) : parts \in UNION { [1..n -> Parts] : n \in 0..MaxParts } }

InitDict ==
    /\ NoClient
    /\ NoRegistry
    /\ NoUrl
    /\ \E datas \in Datas : cdict = CallableDict(datas)
    /\ lookup = [op |-> "", key |-> KeyStr(<<>>), value |-> <<>>]

Looked(o, k, res) ==
    /\ cdict' = res.self
    /\ lookup' = [op |-> o, key |-> k, value |-> res.value]
    /\ UNCHANGED <<clientVars, registryVars, urlVars>>

\* d[key]
GetItem == \E k \in Keys : Looked("__getitem__", k, __getitem__(cdict, k))

\* d(key)
Call == \E k \in Keys : Looked("__call__", k, __call__(cdict, k))

NextDict == GetItem \/ Call

SpecDict == InitDict /\ [][NextDict]_vars

-----------------------------------------------------------------------------
(* The URL of a request: every url argument is normalized, and the URL     *)
(* sent is passed as the url argument once more.                           *)

UrlTokens == { "/", "1.0", "https://radarly.linkfluence.com", "projects" }

UrlInputs == UNION { [1..n -> UrlTokens] : n \in 0..MaxUrlLen }

InitUrl ==
    /\ NoClient
    /\ NoRegistry
    /\ NoDict
    /\ url_arg \in UrlInputs
    /\ sent = <<>>

\* request(verb, url)
Normalize ==
    /\ sent = <<>>
    /\ sent' = <<normalize(url_arg)>>
    /\ UNCHANGED <<url_arg, clientVars, registryVars, dictVars>>

\* request(verb, u) for the URL u that was sent
NormalizeAgain ==
    /\ Len(sent) = 1
    /\ sent' = Append(sent, normalize(sent[1]))
    /\ UNCHANGED <<url_arg, clientVars, registryVars, dictVars>>

NextUrl == Normalize \/ NormalizeAgain

SpecUrl == InitUrl /\ [][NextUrl]_vars

-----------------------------------------------------------------------------
(* Properties of _parse_error_response, under SpecParse *)

\* C9: the HTML error page with <title> 'Not Found' and <p id="detail">
\* 'no such resource' is parsed to error_type = the string 'Not Found',
\* error_message = 'no such resource' and error_code = the status code.
C9_HtmlErrorTypeIsTitleString ==
    (/\ Parsed
     /\ response.content_type = "text/html"
     /\ response.title = <<"Not Found">>
     /\ response.detail = <<"no such resource">>)
    => /\ Get(error_data, "error_type", PyStr("")) = PyStr("Not Found")
       /\ Get(error_data, "error_message", PyStr("")) = PyStr("no such resource")
       /\ Get(error_data, "error_code", PyInt(0)) = PyInt(response.status_code)

\* A JSON error response whose body is exactly {"error_type": X, "message": Y}
IsTypeMessageBody(r) ==
    r.content_type = "application/json" /\ DOMAIN r.json = {"error_type", "message"}

\* C10: a JSON error body {"error_type": X, "message": Y} is parsed to a dict
\* whose error_type is X, whose message is Y and whose error_code is the
\* status code of the response, whatever X and Y are.
C10_JsonFieldsPreserved ==
    (Parsed /\ IsTypeMessageBody(response))
    => /\ DOMAIN error_data = {"error_code", "error_type", "message"}
       /\ error_data["error_type"] = response.json["error_type"]
       /\ error_data["message"] = response.json["message"]
       /\ error_data["error_code"] = PyInt(response.status_code)

\* C10: a body whose X is not a string and whose Y is a list has been parsed
C10_Witness ==
    /\ Parsed
    /\ IsTypeMessageBody(response)
    /\ response.json["error_type"] = PyInt(7)
    /\ response.json["message"] = PyList(<<"Y", "Z">>)
    /\ response.status_code = 404

-----------------------------------------------------------------------------
(* Reading the record of an operation *)

Last(q) == q[Len(q)]

IsResource(c) == c.kind = "resource"
IsRefresh(c) == c.kind = "token" /\ c.grant = "refresh_token"
IsAuthenticate(c) == c.kind = "token" /\ c.grant = "client_credentials"

\* the resource calls and the refresh calls among the calls cs
ResourceCalls(cs) == SelectSeq(cs, IsResource)
RefreshCalls(cs) == SelectSeq(cs, IsRefresh)
AuthenticateCalls(cs) == SelectSeq(cs, IsAuthenticate)

\* the error type the code reads from an error response
ErrorType(r) == Get(_parse_error_response(r), "error_type", PyStr(""))

\* an error response the code reads as an expired token
IsExpiredToken(r) == IsHTTPError(r) /\ ErrorType(r) = PyStr("ExpiredTokenException")

\* the entry the rate tracker gives a URL from the headers of r
EntryOf(r) == [tracked |-> TRUE, remaining |-> r.max - r.used, reset |-> r.reset]

-----------------------------------------------------------------------------
(* Properties of the default api, under SpecDefault *)

\* a call that registers an object: an init that returned, a
\* set_default_api of a RadarlyApi object
IsRegistration(e) ==
    \/ e.op = "init" /\ e.exc = "None"
    \/ e.op = "set_default_api" /\ isinstance(e.api)

Registrations(h) == SelectSeq(h, IsRegistration)

C19_FailedInitKeepsDefaultApi ==
    [][ (history' # history /\ Last(history').op = "init" /\ Last(history').exc # "None")
        => get_default_api(_default_api') = get_default_api(_default_api) ]_vars

\* C19: an init failed to authenticate while a default api was registered
C19_Witness ==
    /\ history # <<>>
    /\ Last(history).op = "init"
    /\ Last(history).exc = "BadAuthentication"
    /\ isinstance(_default_api)

-----------------------------------------------------------------------------
(* Properties of CallableDict, under SpecDict *)

-----------------------------------------------------------------------------
(* Properties of the URL of a request, under SpecUrl *)

\* a relative path: no '/' at its ends, not under the root, no version yet
IsRelativePath(u) ==
    /\ u # <<>>
    /\ Strip(u) = u
    /\ ~Contains(u, root_url)
    /\ ~StartsWith(u, version)

\* C15: the URL sent starts with root_url, is root_url/version/p for a
\* relative path p, and is sent unchanged when it is passed as the url.
C15_SentUrlIsUnderRoot ==
    sent # <<>>
    => /\ StartsWith(sent[1], root_url)
       /\ IsRelativePath(url_arg) => sent[1] = Join(root_url, Join(version, url_arg))
       /\ Len(sent) = 2 => sent[2] = sent[1]

-----------------------------------------------------------------------------
(* Properties of the client, under Spec *)

\* C1: a request made while the rate tracker reports the quota of its
\* target URL as reached fails with RateReached and makes no network call.
C1_RateReachedFailsFast ==
    [][ (op' = "request" /\ is_reached(rates, normalize(called'.url)))
        => (exc'.type = "RateReached" /\ calls' = <<>>) ]_vars

\* C1: a request has been refused for a reached quota
C1_Witness ==
    /\ op = "request"
    /\ exc.type = "RateReached"
    /\ is_reached(rates, normalize(called.url))


\* the first resource call of the request just made was answered by an
\* expired-token error
FirstExpired ==
    /\ op = "request"
    /\ ResourceCalls(calls) # <<>>
    /\ IsExpiredToken(ResourceCalls(calls)[1].response)

\* C2 as stated: with autorefresh, a first expired-token error gives exactly
\* one refresh and exactly one retry, and a retry that is an expired-token
\* error again fails the request with that error.
C2_OneRefreshOneRetry ==
    (autorefresh /\ FirstExpired)
    => /\ Len(RefreshCalls(calls)) = 1
       /\ Len(ResourceCalls(calls)) = 2
       /\ IsExpiredToken(ResourceCalls(calls)[2].response)
            => exc = Raise("HTTPError", ResourceCalls(calls)[2].response)

\* C2 as amended: exactly one refresh; when the refresh returns, exactly one
\* retry, whose error (an expired token included) fails the request with no
\* further refresh or retry; when the refresh raises, its exception is the
\* outcome and no retry is sent.
C2_OneRefreshThenOneRetry ==
    (autorefresh /\ FirstExpired)
    => /\ Len(RefreshCalls(calls)) = 1
       /\ IF HasJson(RefreshCalls(calls)[1].response)
          THEN /\ Len(ResourceCalls(calls)) = 2
               /\ LET retry == ResourceCalls(calls)[2].response IN
                  IF IsHTTPError(retry) THEN exc = Raise("HTTPError", retry)
                  ELSE exc = NoExc
          ELSE /\ Len(ResourceCalls(calls)) = 1
               /\ exc.type = "ValueError"

\* C2: the retry after the refresh was refused for an expired token too
C2_Witness ==
    /\ autorefresh
    /\ FirstExpired
    /\ Len(ResourceCalls(calls)) = 2
    /\ IsExpiredToken(ResourceCalls(calls)[2].response)
    /\ exc.type = "HTTPError"

\* the authenticate of the operation got an HTTP error from the token endpoint
AuthenticateRefused(cs) ==
    AuthenticateCalls(cs) # <<>> /\ IsHTTPError(AuthenticateCalls(cs)[1].response)

\* C3 as stated: an authenticate that gets an HTTP error raises
\* BadAuthentication, and afterwards no access token and no refresh token
\* is stored.
C3_RefusedAuthenticateStoresNothing ==
    AuthenticateRefused(calls)
    => /\ exc.type = "BadAuthentication"
       /\ access_token = None
       /\ refresh_token = None

\* C3 as amended: an authenticate that gets an HTTP error raises
\* BadAuthentication and leaves the stored access token and refresh token
\* as they were before the call.
C3_RefusedAuthenticateKeepsTokens ==
    [][ AuthenticateRefused(calls')
        => (exc'.type = "BadAuthentication" /\ UNCHANGED <<access_token, refresh_token>>)
      ]_vars

\* C3: authenticate was refused on a client that holds tokens
C3_Witness ==
    /\ op = "authenticate"
    /\ AuthenticateRefused(calls)
    /\ access_token # None
    /\ refresh_token # None

\* the tokens and credentials after a request that neither refreshed nor
\* stored anything after its call was sent: untouched on a client that had
\* bearer credentials, those of its own authenticate otherwise
TokensAsSent ==
    IF _auth.set THEN UNCHANGED <<access_token, refresh_token, _auth>>
    ELSE LET body == AuthenticateCalls(calls')[1].response.json IN
         /\ access_token' = Get(body, "access_token", None)
         /\ refresh_token' = Get(body, "refresh_token", None)
         /\ _auth' = RadarlyAuth(access_token')

\* the request of this step got, on its first call, an error that is not an
\* expired-token error
OtherErrorStep ==
    /\ op' = "request"
    /\ ResourceCalls(calls') # <<>>
    /\ IsHTTPError(ResourceCalls(calls')[1].response)
    /\ ~IsExpiredToken(ResourceCalls(calls')[1].response)

\* C4 as stated: an error that is not an expired-token error is raised to
\* the caller as it is, with no refresh, no second HTTP call, and the access
\* token, the refresh token and the bearer credentials unchanged.
C4_OtherErrorsChangeNothing ==
    [][ OtherErrorStep
        => /\ exc' = Raise("HTTPError", ResourceCalls(calls')[1].response)
           /\ RefreshCalls(calls') = <<>>
           /\ Len(ResourceCalls(calls')) = 1
           /\ UNCHANGED <<access_token, refresh_token, _auth>> ]_vars

\* C4 as amended: the same, the tokens and credentials being unchanged on a
\* client that had bearer credentials, and those stored by the authenticate
\* that the request runs first on a client that had none.
C4_OtherErrorsPropagate ==
    [][ OtherErrorStep
        => /\ exc' = Raise("HTTPError", ResourceCalls(calls')[1].response)
           /\ RefreshCalls(calls') = <<>>
           /\ Len(ResourceCalls(calls')) = 1
           /\ TokensAsSent ]_vars

\* C4: a missing resource was reported to a client that holds tokens
C4_Witness ==
    /\ op = "request"
    /\ autorefresh
    /\ Len(ResourceCalls(calls)) = 1
    /\ ResourceCalls(calls)[1].response.status_code = 404
    /\ exc.type = "HTTPError"
    /\ access_token # None

\* C5: after a request that received a response, the rate tracker entry of
\* the target URL is the one given by the headers of the last response
\* received, whether data, an error or the answer to the retry.
C5_RatesFollowEveryResponse ==
    (op = "request" /\ ResourceCalls(calls) # <<>>)
    => LET last == Last(ResourceCalls(calls)) IN
       rates[last.url] = EntryOf(last.response)

\* C6: the bearer credentials, when set, are built from the access token
\* that is stored, and the last resource call of a request carried them.
C6_OneActiveToken ==
    /\ _auth.set => _auth = RadarlyAuth(access_token)
    /\ (op = "request" /\ ResourceCalls(calls) # <<>>)
         => Last(ResourceCalls(calls)).auth = RadarlyAuth(access_token)

\* C6: a refresh has replaced the token of a client
C6_Witness ==
    /\ op = "refresh"
    /\ exc = NoExc
    /\ _auth.set
    /\ access_token # None
    /\ Len(AuthenticateCalls(calls)) = 0
    /\ issued = refresh_token

\* the refresh of the operation got tokens from the token endpoint
RefreshGranted(cs) ==
    /\ RefreshCalls(cs) # <<>>
    /\ ~IsHTTPError(RefreshCalls(cs)[1].response)
    /\ HasJson(RefreshCalls(cs)[1].response)

\* C7: every refresh sends the refresh token that the most recent successful
\* authenticate or refresh before it returned, and a successful refresh
\* stores the two tokens of its response and sets last_refresh to the time
\* of the call.
C7_RefreshSendsIssuedToken ==
    [][ /\ \A i \in 1..Len(calls') :
             IsRefresh(calls'[i])
             => calls'[i].refresh_token = IssuedBy(SubSeq(calls', 1, i - 1), issued)
        /\ (op' = "refresh" /\ RefreshGranted(calls'))
             => LET body == RefreshCalls(calls')[1].response.json IN
                /\ access_token' = body["access_token"]
                /\ refresh_token' = body["refresh_token"]
                /\ last_refresh' = now ]_vars

\* the request of this step got, on its first call, an expired-token error
\* on a client that does not refresh by itself
ExpiredNoAutorefreshStep ==
    /\ op' = "request"
    /\ ~autorefresh
    /\ ResourceCalls(calls') # <<>>
    /\ IsExpiredToken(ResourceCalls(calls')[1].response)

\* C8 as stated: with autorefresh False an expired-token error is raised to
\* the caller with no refresh and no retry, the stored tokens unchanged.
C8_NoAutorefreshChangesNothing ==
    [][ ExpiredNoAutorefreshStep
        => /\ exc' = Raise("HTTPError", ResourceCalls(calls')[1].response)
           /\ RefreshCalls(calls') = <<>>
           /\ Len(ResourceCalls(calls')) = 1
           /\ UNCHANGED <<access_token, refresh_token>> ]_vars

\* C8 as amended: the same, the stored tokens being unchanged on a client
\* that had bearer credentials, and those stored by the authenticate that
\* the request runs first on a client that had none.
C8_NoAutorefreshNoRetry ==
    [][ ExpiredNoAutorefreshStep
        => /\ exc' = Raise("HTTPError", ResourceCalls(calls')[1].response)
           /\ RefreshCalls(calls') = <<>>
           /\ Len(ResourceCalls(calls')) = 1
           /\ TokensAsSent ]_vars

\* C8: an expired token was reported to a client that does not refresh
C8_Witness ==
    /\ op = "request"
    /\ ~autorefresh
    /\ FirstExpired
    /\ exc.type = "HTTPError"
    /\ access_token # None

\* C13 as stated: a request consults the rate limit exactly once, before
\* its first HTTP call, and the retry after a refresh is sent unchecked.
C13_RateCheckedOnceBeforeAnyCall ==
    op = "request"
    => checks = <<[url |-> normalize(called.url), sent |-> 0]>>

\* C13 as amended: a request whose own authenticate is refused consults the
\* rate limit not at all; every other request consults it exactly once, for
\* its target URL, after the authenticate it may run and before its first
\* resource call, and the retry after a refresh is sent unchecked.
C13_RateCheckedOnceBeforeFirstResourceCall ==
    op = "request"
    => IF AuthenticateRefused(calls) THEN checks = <<>>
       ELSE checks = <<[url |-> normalize(called.url),
                        sent |-> Len(AuthenticateCalls(calls))]>>

\* C13: a retry was sent after a first answer whose headers report the
\* quota of the URL as used up
C13_Witness ==
    /\ op = "request"
    /\ Len(ResourceCalls(calls)) = 2
    /\ ResourceCalls(calls)[1].response.used = ResourceCalls(calls)[1].response.max
    /\ Len(checks) = 1

\* C14: a refresh that the token endpoint answers with an HTTP error or
\* with a body without tokens leaves the access token, the refresh token and
\* the bearer credentials as they were.
C14_FailedRefreshKeepsTokens ==
    [][ (op' = "refresh" /\ ~RefreshGranted(calls'))
        => UNCHANGED <<access_token, refresh_token, _auth>> ]_vars

\* C16: every resource call of a request carries bearer credentials; a
\* request on a client that has none starts with an authenticate, and when
\* that authenticate is refused the request raises BadAuthentication after
\* that one call, with no rate check and no resource call.
C16_NoResourceCallWithoutCredentials ==
    [][ op' = "request"
        => /\ \A i \in 1..Len(calls') : IsResource(calls'[i]) => calls'[i].auth.set
           /\ ~_auth.set
                => /\ calls' # <<>>
                   /\ IsAuthenticate(calls'[1])
                   /\ AuthenticateRefused(calls')
                        => /\ exc'.type = "BadAuthentication"
                           /\ Len(calls') = 1
                           /\ checks' = <<>> ]_vars

\* C16: the authenticate of a request on a client without credentials was
\* refused
C16_Witness ==
    /\ op = "request"
    /\ ~_auth.set
    /\ AuthenticateRefused(calls)
    /\ exc.type = "BadAuthentication"

\* C17: the retry after a refresh has the URL, the verb and the body of the
\* first call, a body given as data being serialized once, and carries the
\* bearer credentials built from the access token of the refresh response.
C17_RetryRepeatsCallWithNewToken ==
    (op = "request" /\ Len(ResourceCalls(calls)) = 2)
    => LET first == ResourceCalls(calls)[1]
           retry == ResourceCalls(calls)[2]
           body == RefreshCalls(calls)[1].response.json
       IN  /\ retry.url = first.url
           /\ retry.verb = first.verb
           /\ retry.data = first.data
           /\ retry.data = IF called.kwargs.data.given THEN Dumps(called.kwargs.data)
                           ELSE NoData
           /\ retry.auth = RadarlyAuth(Get(body, "access_token", None))

\* C17: a call with a body was retried with a token that is not the one the
\* first call carried
C17_Witness ==
    /\ op = "request"
    /\ Len(ResourceCalls(calls)) = 2
    /\ called.kwargs.data.given
    /\ RefreshGranted(calls)
    /\ ResourceCalls(calls)[1].auth.token # None
    /\ ResourceCalls(calls)[2].auth.token # None
    /\ ResourceCalls(calls)[2].auth.token # ResourceCalls(calls)[1].auth.token

\* C18: an operation that raises BadAuthentication leaves the access token,
\* the refresh token, the scope and the bearer credentials, and the rest of
\* the client, as they were.
C18_BadAuthenticationChangesNothing ==
    [][ exc'.type = "BadAuthentication"
        => UNCHANGED <<access_token, refresh_token, scope, _auth, last_refresh, rates>> ]_vars

\* C18: an authenticate failed on a client that had authenticated before
C18_Witness ==
    /\ op = "authenticate"
    /\ exc.type = "BadAuthentication"
    /\ AuthenticateCalls(calls)[1].response.status_code = 502
    /\ _auth.set
    /\ access_token # None
    /\ scope = <<"listening">>

====
